---- MODULE Spec2Model ----
(***************************************************************************)
(* A model of the custodial ledger of blockchain-api-test (app/main.py,     *)
(* app/utils/*.py, app/models.py).                                          *)
(*                                                                          *)
(* State: the four tables (addresses, balances, transactions,               *)
(* processed_transactions), the chain as the handlers see it (receipts of   *)
(* the broadcast transfers), the request being served by the event loop,    *)
(* and the ReceiptProcessor thread (started, pending_transactions, the      *)
(* position of its loop).                                                   *)
(*                                                                          *)
(* Conventions.                                                             *)
(*  - Every endpoint is an `async def` without a single await, so the       *)
(*    event loop runs one endpoint call to completion before the next:      *)
(*    at most one request is in `cur`.  The ReceiptProcessor runs on its    *)
(*    own Thread and interleaves with the steps of the request.             *)
(*  - A mapped object and its row are one thing: a Transaction has one      *)
(*    status.  `with self.db.begin()` is an atomic unit that either         *)
(*    commits all its row changes or, on an exception, none of them.        *)
(*  - An address is a pair (id, cs): cs tells the EIP-55 checksum spelling  *)
(*    from the all-lowercase spelling.  Python compares the strings, so     *)
(*    the two spellings of one address are different values.                *)
(*  - Amounts are integers; str()/int() of the String columns are exact.    *)
(***************************************************************************)
EXTENDS Integers, Sequences, FiniteSets, TLC

VARIABLES
    addresses,              \* table addresses: set of rows [address, index]
    balances,               \* table balances: <<address, token>> -> amount
    txs,                    \* table transactions: sequence of rows
    processed,              \* table processed_transactions: set of hashes
    receipt,                \* chain: receipt state of each outgoing hash
    cur,                    \* the endpoint call the event loop is running
    resp,                   \* the last HTTP response sent
    started,                \* ReceiptProcessor.started
    pending_transactions,   \* ReceiptProcessor.pending_transactions (row ids)
    rpc,                    \* position of the ReceiptProcessor thread
    it,                     \* index of the list iterator of the for loop
    credited,               \* history: <<hash, k>> -> times transfer k was credited
    restarts,               \* history: times the process was restarted
    second,                 \* position of a second thread that calls start()
    debited                 \* history: row id -> times _update_balance debited for it

vars == <<addresses, balances, txs, processed, receipt, cur, resp, started,
          pending_transactions, rpc, it, credited, debited, restarts,
          second>>

(***************************************************************************)
(* Bounds                                                                   *)
(***************************************************************************)
MaxAddresses == 2       \* addresses ever generated
MaxWithdrawals == 2     \* outgoing transfers ever broadcast
MaxList == 2            \* cap on the length the reconciler grows its list to
MaxDebits == 2           \* cap on the debits applied for one row
MaxRestarts == 1        \* cap on the restarts of the process

(***************************************************************************)
(* Program constants                                                        *)
(***************************************************************************)
MIN_TRANSFER_EVENT_TOPICS == 3
GAS_ETH == 21000
GAS_USDC == 65000

Tokens == {"ETH", "USDC"}

(***************************************************************************)
(* Addresses                                                                *)
(***************************************************************************)
ExtId == MaxAddresses + 1       \* an address outside the registry
UsdcId == MaxAddresses + 2      \* the configured USDC contract
OtherId == MaxAddresses + 3     \* some other ERC-20 contract

Addr(i, c) == [id |-> i, cs |-> c]
NoAddr == Addr(-1, FALSE)                 \* NULL / None
lower(a) == [a EXCEPT !.cs = FALSE]       \* str.lower()
to_checksum_address(a) == [a EXCEPT !.cs = TRUE]
\* the derivation that is mutated below: every index gives the same key
generate_keypair_same(index) == Addr(0, TRUE)
generate_keypair(index) == Addr(index, TRUE)   \* eth_account gives the checksum spelling


NoNum == -1                               \* None in gas_used, gas_price, fee

(***************************************************************************)
(* The chain: the inbound transactions the Deposit Processor is asked       *)
(* about.  web3 gives tx['from'] and tx['to'] in the checksum spelling;     *)
(* the addresses in log topics are lowercase hex.                           *)
(***************************************************************************)
BadData == -1                             \* log data int(..., 16) cannot decode

Log(contract, n, s, f, t, d) ==
    [address |-> contract, ntopics |-> n, sig |-> s,
     from_address |-> f, to_address |-> t, data |-> d]

InHashes == {1, 2, 3, 4, 5, 6}
OutHash(n) == 100 + n
OutHashes == {OutHash(n) : n \in 1..MaxWithdrawals}
Hashes == InHashes \cup OutHashes

ChainTx(h) ==
    CASE h = 1 ->   \* 500000 wei of ETH to managed address 0
            [found |-> TRUE, value |-> 500000, from |-> Addr(ExtId, TRUE),
             to |-> generate_keypair(0), logs |-> <<>>]
      [] h = 2 ->   \* USDC logs: two to managed address 0, one to 1, one to another, plus bad logs
            [found |-> TRUE, value |-> 0, from |-> Addr(ExtId, TRUE),
             to |-> Addr(UsdcId, TRUE),
             logs |-> << Log(UsdcId, 3, TRUE, Addr(ExtId, FALSE), Addr(0, FALSE), 2),
                         Log(UsdcId, 3, TRUE, Addr(ExtId, FALSE), Addr(1, FALSE), BadData),
                         Log(OtherId, 3, TRUE, Addr(ExtId, FALSE), Addr(0, FALSE), 5),
                         Log(UsdcId, 3, TRUE, Addr(ExtId, FALSE), Addr(1, FALSE), 1),
                         Log(UsdcId, 2, TRUE, Addr(ExtId, FALSE), Addr(0, FALSE), 7),
                         Log(UsdcId, 3, FALSE, Addr(ExtId, FALSE), Addr(0, FALSE), 7),
                         Log(UsdcId, 3, TRUE, Addr(ExtId, FALSE), Addr(ExtId, FALSE), 4),
                         Log(UsdcId, 3, TRUE, Addr(ExtId, FALSE), Addr(0, FALSE), 3) >>]
      [] h = 3 ->   \* a contract call that moves nothing
            [found |-> TRUE, value |-> 0, from |-> Addr(ExtId, TRUE),
             to |-> Addr(OtherId, TRUE), logs |-> <<>>]
      [] h = 5 ->   \* ETH sent by managed address 0 to managed address 1
            [found |-> TRUE, value |-> 300000, from |-> generate_keypair(0),
             to |-> generate_keypair(1), logs |-> <<>>]
      [] h = 6 ->   \* 100000 wei of ETH to managed address 1
            [found |-> TRUE, value |-> 100000, from |-> Addr(ExtId, TRUE),
             to |-> generate_keypair(1), logs |-> <<>>]
      [] h \in OutHashes /\ receipt[h] \in {"ok", "fail"} ->
            \* a transfer broadcast by the Wallet that has been mined: the
            \* value of a native transfer, the Transfer log of a token one
            LET row == txs[CHOOSE i \in DOMAIN txs : txs[i].hash = h]
            IN IF row.gas_used = GAS_ETH
               THEN [found |-> TRUE, value |-> row.amount,
                     from |-> row.from_address,
                     to |-> to_checksum_address(row.to_address),
                     logs |-> <<>>]
               ELSE [found |-> TRUE, value |-> 0, from |-> row.from_address,
                     to |-> Addr(UsdcId, TRUE),
                     logs |-> IF receipt[h] = "ok"
                              THEN << Log(UsdcId, 3, TRUE,
                                          lower(row.from_address),
                                          lower(row.to_address), row.amount) >>
                              ELSE <<>>]
      [] OTHER ->   \* not on chain
            [found |-> FALSE, value |-> 0, from |-> NoAddr, to |-> NoAddr,
             logs |-> <<>>]

GasPrices == {8}                          \* w3.eth.gas_price as suggested by the node

(***************************************************************************)
(* TransactionDetector                                                      *)
(***************************************************************************)
Transfer(k, amt, f, t) ==
    [kind |-> k, amount |-> amt, from_address |-> f, to_address |-> t]

\* the test that is mutated below: every log counts as a Transfer event
EveryLogIsTransfer(log) == TRUE

_is_transfer_event(log) ==
    log.ntopics >= MIN_TRANSFER_EVENT_TOPICS /\ log.sig

\* the parser that is mutated below: data that cannot be decoded gives a
\* transfer of amount 0
ParseUndecodableAsZero(log) ==
    << Transfer("USDC", IF log.data = BadData THEN 0 ELSE log.data,
                log.from_address, log.to_address) >>

\* None when int(data, 16) raises ValueError
_parse_transfer_event(log) ==
    IF log.data = BadData
    THEN <<>>
    ELSE << Transfer("USDC", log.data, log.from_address, log.to_address) >>

RECURSIVE _process_erc20_transfers(_)
_process_erc20_transfers(logs) ==
    IF logs = <<>> THEN <<>>
    ELSE LET log == Head(logs)
             rest == _process_erc20_transfers(Tail(logs))
         IN IF _is_transfer_event(log)
               /\ _parse_transfer_event(log) # <<>>
               /\ log.address = UsdcId
            THEN _parse_transfer_event(log) \o rest
            ELSE rest

_process_eth_transfer(tx) ==
    IF tx.value > 0
    THEN << Transfer("ETH", tx.value, tx.from, tx.to) >>
    ELSE <<>>

\* the detector that is mutated below: a transaction that is not found is
\* reported as one that was found and moves nothing
DetectMissingAsEmpty(h) ==
    LET tx == ChainTx(h)
        eth == _process_eth_transfer(tx)
        usdc == _process_erc20_transfers(tx.logs)
        types == (IF eth # <<>> THEN <<"ETH_TRANSFER">> ELSE <<>>)
                 \o (IF usdc # <<>> THEN <<"USDC_TRANSFER">> ELSE <<>>)
    IN [found |-> TRUE, eth_transfer |-> eth, usdc_transfer |-> usdc,
        transaction_type |-> IF types = <<>> THEN <<"OTHER">> ELSE types]

\* found = FALSE stands for the None returned on TransactionNotFound
detect_transaction(h) ==
    LET tx == ChainTx(h)
        eth == _process_eth_transfer(tx)
        usdc == _process_erc20_transfers(tx.logs)
        types == (IF eth # <<>> THEN <<"ETH_TRANSFER">> ELSE <<>>)
                 \o (IF usdc # <<>> THEN <<"USDC_TRANSFER">> ELSE <<>>)
    IN IF ~tx.found
       THEN [found |-> FALSE, eth_transfer |-> <<>>, usdc_transfer |-> <<>>,
             transaction_type |-> <<>>]
       ELSE [found |-> TRUE, eth_transfer |-> eth, usdc_transfer |-> usdc,
             transaction_type |-> IF types = <<>> THEN <<"OTHER">> ELSE types]

Range(s) == {s[i] : i \in DOMAIN s}

(***************************************************************************)
(* Tables                                                                   *)
(***************************************************************************)
TxRow(h, f, t, amt, tok, st, gu, gp, fee) ==
    [hash |-> h, from_address |-> f, to_address |-> t, amount |-> amt,
     token |-> tok, status |-> st, gas_used |-> gu, gas_price |-> gp,
     fee |-> fee]

\* the lookup that is mutated below: every destination counts as managed
EveryAddressStored == {Addr(i, FALSE) : i \in 0..OtherId}

StoredAddresses == {r.address : r \in addresses}

HasBalance(a, t) == <<a, t>> \in DOMAIN balances

\* db.query(Balance).filter_by(address=a, token=t).first()
BalanceRead(a, t) ==
    IF HasBalance(a, t)
    THEN [row |-> TRUE, balance |-> balances[<<a, t>>]]
    ELSE [row |-> FALSE, balance |-> 0]

\* the write that is mutated below: a row that exists keeps its value
BalanceInsertOnly(a, t, v) ==
    [k \in DOMAIN balances \cup {<<a, t>>} |->
        IF k \in DOMAIN balances THEN balances[k] ELSE v]

BalanceWrite(a, t, v) ==
    [k \in DOMAIN balances \cup {<<a, t>>} |->
        IF k = <<a, t>> THEN v ELSE balances[k]]

NoReq == [kind |-> "none"]
NoResp == [op |-> "none", code |-> 0, detail |-> ""]
Resp(o, c, d) == [op |-> o, code |-> c, detail |-> d]


RECURSIVE RemoveFirst(_, _)
\* list.remove(x): drops the first occurrence
RemoveFirst(s, x) ==
    IF s = <<>> THEN <<>>
    ELSE IF Head(s) = x THEN Tail(s)
    ELSE <<Head(s)>> \o RemoveFirst(Tail(s), x)

(***************************************************************************)
(* Balance Ledger: get_balance                                              *)
(***************************************************************************)
PendingFrom(address, token) ==
    {i \in DOMAIN txs : /\ txs[i].from_address = address
                        /\ txs[i].token = token
                        /\ txs[i].status = "pending"}

Encumbrance(i) ==
    txs[i].amount + (IF txs[i].fee = NoNum THEN 0 ELSE txs[i].fee)

RECURSIVE SumEncumbrance(_)
SumEncumbrance(S) ==
    IF S = {} THEN 0
    ELSE LET x == CHOOSE y \in S : TRUE
         IN Encumbrance(x) + SumEncumbrance(S \ {x})

get_balance(address, token) ==
    BalanceRead(address, token).balance
        + SumEncumbrance(PendingFrom(address, token))

\* the endpoints are async def without an await: the event loop runs one
\* handler at a time
Idle == cur = NoReq

(***************************************************************************)
(* POST /addresses                                                          *)
(***************************************************************************)
generate_addresses(quantity) ==
    /\ Idle
    /\ UNCHANGED <<restarts, second>>
    /\ Cardinality(addresses) + quantity <= MaxAddresses
    /\ LET total_before == Cardinality(addresses)
           new == {[address |-> lower(generate_keypair(total_before + i)),
                    index |-> total_before + i] : i \in 0..(quantity - 1)}
       IN /\ addresses' = addresses \cup new
          /\ resp' = Resp("generate", 200, "ok")
    /\ UNCHANGED <<balances, txs, processed, receipt, cur, started,
                   pending_transactions, rpc, it, credited, debited>>

(***************************************************************************)
(* POST /process-transaction                                                *)
(***************************************************************************)
AllTransfers(h) ==
    detect_transaction(h).eth_transfer \o detect_transaction(h).usdc_transfer

\* the check that is mutated below: no marker is ever seen
NeverProcessed(h) == FALSE

\* db.query(ProcessedTransaction).filter_by(hash=req.hash).first()
AlreadyProcessed(h) == h \in processed

\* the marker write that is mutated below: the marker is not written
MarkerLost(h) == processed

\* db.add(ProcessedTransaction(hash=req.hash, ...)); db.commit()
MarkProcessed(h) == processed \cup {h}

\* lines 161-200: the marker check, the detection, the bulk address lookup
process_transaction_begin(h) ==
    /\ Idle
    /\ UNCHANGED <<restarts, second>>
    /\ LET result == detect_transaction(h)
           all_transfers == AllTransfers(h)
           to_addresses == {lower(tr.to_address) : tr \in Range(all_transfers)}
       IN IF AlreadyProcessed(h)
          THEN /\ resp' = Resp("process", 409, "Transaction has already been processed.")
               /\ UNCHANGED <<processed, cur>>
          ELSE IF ~result.found     \* result is None: AttributeError
          THEN /\ resp' = Resp("process", 500, "Internal Server Error")
               /\ UNCHANGED <<processed, cur>>
          ELSE IF /\ "ETH_TRANSFER" \notin Range(result.transaction_type)
                  /\ "USDC_TRANSFER" \notin Range(result.transaction_type)
          THEN /\ processed' = MarkProcessed(h)
               /\ resp' = Resp("process", 200, "ok")
               /\ UNCHANGED cur
          ELSE /\ cur' = [kind |-> "process", phase |-> "loop", hash |-> h,
                          transfers |-> all_transfers,
                          existent |-> StoredAddresses \cap to_addresses,
                          i |-> 1, read |-> [row |-> FALSE, balance |-> 0]]
               /\ UNCHANGED <<processed, resp>>
    /\ UNCHANGED <<addresses, balances, txs, receipt, started,
                   pending_transactions, rpc, it, credited, debited>>

\* the test that is mutated below: every destination passes
IsExistentAlways(transfer, existent_addresses) == TRUE

\* if transfer.to_address.lower() in existent_addresses
IsExistent(transfer, existent_addresses) ==
    lower(transfer.to_address) \in existent_addresses

\* lines 204-228 and 252-266: the next transfer is looked at and its Balance
\* row read, or the loop is over and the marker is written
process_transaction_loop ==
    /\ UNCHANGED <<restarts, second>>
    /\ cur.kind = "process" /\ cur.phase = "loop"
    /\ IF cur.i > Len(cur.transfers)
       THEN /\ processed' = MarkProcessed(cur.hash)
            /\ resp' = Resp("process", 200, "ok")
            /\ cur' = NoReq
       ELSE LET transfer == cur.transfers[cur.i]
            IN /\ IF IsExistent(transfer, cur.existent)
                  THEN cur' = [cur EXCEPT !.phase = "commit",
                                   !.read = BalanceRead(lower(transfer.to_address),
                                                        transfer.kind)]
                  ELSE cur' = [cur EXCEPT !.i = @ + 1]
               /\ UNCHANGED <<processed, resp>>
    /\ UNCHANGED <<addresses, balances, txs, receipt, started,
                   pending_transactions, rpc, it, credited, debited>>

\* The row process_transaction adds: the keyword is to_addresses, so the
\* to_address column is left NULL, and status takes the column default.
DepositRow(h, transfer) ==
    TxRow(h, lower(transfer.from_address), NoAddr, transfer.amount,
          transfer.kind, "pending", NoNum, NoNum, NoNum)

\* lines 229-242: the Balance row is written from the value read, and
\* committed with the Transaction row
process_transaction_commit ==
    /\ UNCHANGED <<restarts, second>>
    /\ cur.kind = "process" /\ cur.phase = "commit"
    /\ LET transfer == cur.transfers[cur.i]
           to == lower(transfer.to_address)
       IN /\ txs' = Append(txs, DepositRow(cur.hash, transfer))
          /\ debited' = Append(debited, 0)
          /\ balances' = BalanceWrite(to, transfer.kind,
                              IF cur.read.row
                              THEN cur.read.balance + transfer.amount
                              ELSE transfer.amount)
          /\ credited' = [credited EXCEPT ![<<cur.hash, cur.i>>] = @ + 1]
    /\ cur' = [cur EXCEPT !.phase = "loop", !.i = @ + 1]
    /\ UNCHANGED <<addresses, processed, receipt, resp, started,
                   pending_transactions, rpc, it>>


(***************************************************************************)
(* POST /withdraw                                                           *)
(***************************************************************************)
NumSent == Cardinality({h \in OutHashes : receipt[h] # "unsent"})

\* Wallet.get_gas_price: int(Decimal(base_gas_price) * Decimal('1.2'))
\* the price that is mutated below: the suggested price without the margin
SuggestedGasPrice(base_gas_price) == base_gas_price

get_gas_price(base_gas_price) == (base_gas_price * 12) \div 10

\* the transfer that is mutated below: the cost of the gas is not recorded
WalletTransferNoFee(index, token, to_address, amount, tx_hash, gas_price) ==
    TxRow(tx_hash, to_checksum_address(generate_keypair(index)), to_address,
          amount, "ETH", "pending", NoNum, NoNum, NoNum)

\* Wallet._transfer_eth / _transfer_usdc: the row returned for a broadcast
\* transfer; both paths write token='ETH'
WalletTransfer(index, token, to_address, amount, tx_hash, gas_price) ==
    LET gas_used == IF token = "ETH" THEN GAS_ETH ELSE GAS_USDC
    IN TxRow(tx_hash, to_checksum_address(generate_keypair(index)), to_address,
             amount, "ETH", "pending", gas_used, gas_price,
             gas_used * gas_price)

\* get_balance(...) < req.amount
InsufficientFunds(address, token, amount) ==
    get_balance(address, token) < amount

\* the marker that is mutated below: a withdrawal records none
WithdrawMarkerMissing(tx_hash) == processed

\* db.add(ProcessedTransaction(hash=tx.hash, ...)) of withdraw
WithdrawMarker(tx_hash) == processed \cup {tx_hash}

\* lines 278-314: the checks, the broadcast, the commit of row and marker
withdraw_begin(from_address, to_address, amount, token, base_gas_price) ==
    /\ Idle
    /\ UNCHANGED <<restarts, second>>
    /\ NumSent < MaxWithdrawals
    /\ LET address == {r \in addresses : r.address = from_address}
           tx_hash == OutHash(NumSent + 1)
       IN IF address = {}
          THEN /\ resp' = Resp("withdraw", 404, "Address not found.")
               /\ UNCHANGED <<txs, processed, receipt, debited, cur>>
          ELSE IF amount <= 0
          THEN /\ resp' = Resp("withdraw", 400, "Invalid amount.")
               /\ UNCHANGED <<txs, processed, receipt, debited, cur>>
          ELSE IF InsufficientFunds(from_address, token, amount)
          THEN /\ resp' = Resp("withdraw", 400, "Insufficient funds.")
               /\ UNCHANGED <<txs, processed, receipt, debited, cur>>
          ELSE LET index == (CHOOSE r \in address : TRUE).index
               IN /\ receipt' = [receipt EXCEPT ![tx_hash] = "none"]
                  /\ txs' = Append(txs, WalletTransfer(index, token,
                                            to_address, amount, tx_hash,
                                            get_gas_price(base_gas_price)))
                  /\ debited' = Append(debited, 0)
                  /\ processed' = WithdrawMarker(tx_hash)
                  /\ cur' = [kind |-> "withdraw", phase |-> "handoff",
                             tx |-> Len(txs) + 1]
                  /\ UNCHANGED resp
    /\ UNCHANGED <<addresses, balances, started, pending_transactions, rpc, it,
                   credited>>

\* line 316: receipt_processor.add_pending_transaction(tx), then the response
withdraw_handoff ==
    /\ UNCHANGED <<restarts, second>>
    /\ cur.kind = "withdraw" /\ cur.phase = "handoff"
    /\ pending_transactions' = Append(pending_transactions, cur.tx)
    /\ resp' = Resp("withdraw", 200, "ok")
    /\ cur' = NoReq
    /\ UNCHANGED <<addresses, balances, txs, processed, receipt, started, rpc,
                   it, credited, debited>>

(***************************************************************************)
(* The chain mines a broadcast transfer                                     *)
(***************************************************************************)
Mine(h, outcome) ==
    /\ UNCHANGED <<restarts, second>>
    /\ h \in OutHashes
    /\ receipt[h] = "none"
    /\ receipt' = [receipt EXCEPT ![h] = outcome]
    /\ UNCHANGED <<addresses, balances, txs, processed, cur, resp, started,
                   pending_transactions, rpc, it, credited, debited>>

\* the lookup that is mutated below: a missing receipt is read as a failed one
ReceiptMissingIsFailed(h) ==
    IF h \in OutHashes
    THEN (IF receipt[h] = "none" THEN "fail" ELSE receipt[h])
    ELSE "ok"

\* w3.eth.get_transaction_receipt: "none" raises TransactionNotFound
ReceiptOf(h) ==
    IF h \in OutHashes THEN receipt[h]
    ELSE IF ChainTx(h).found THEN "ok" ELSE "none"

(***************************************************************************)
(* ReceiptProcessor                                                         *)
(***************************************************************************)
\* the query that is mutated below: no pending row is found
NoPendingRows(n) == <<>>

RECURSIVE PendingRows(_)
\* the rows with status 'pending', in table order
PendingRows(n) ==
    IF n = 0 THEN <<>>
    ELSE PendingRows(n - 1)
            \o (IF txs[n].status = "pending" THEN <<n>> ELSE <<>>)

\* the guard that is mutated below: start() never returns early
StartNeverReturnsEarly == FALSE

\* if self.started: return
StartReturnsEarly == started

\* start(): the guard, then _sync_pending_transactions
start ==
    /\ UNCHANGED <<restarts, second>>
    /\ rpc = "new"
    /\ IF StartReturnsEarly
       THEN /\ rpc' = "exit"
            /\ UNCHANGED <<started, pending_transactions>>
       ELSE /\ started' = TRUE
            /\ pending_transactions' =
                    pending_transactions \o PendingRows(Len(txs))
            /\ rpc' = "while"
    /\ UNCHANGED <<addresses, balances, txs, processed, receipt, cur, resp, it,
                   credited, debited>>

\* while self.started: the for loop takes a fresh iterator of the list
loop_while ==
    /\ UNCHANGED <<restarts, second>>
    /\ rpc = "while"
    /\ IF started
       THEN rpc' = "for" /\ it' = 1
       ELSE rpc' = "exit" /\ UNCHANGED it
    /\ UNCHANGED <<addresses, balances, txs, processed, receipt, cur, resp,
                   started, pending_transactions, credited, debited>>

\* _update_balance: the row it looks up
UpdateBalanceAddress(transaction) == transaction.to_address

\* _update_transaction: the list after transaction.status is set
UpdateTransactionList(list, t) == RemoveFirst(list, t)

\* one turn of the for loop: _process_transaction on the next list element
loop_for ==
    /\ UNCHANGED <<restarts, second>>
    /\ rpc = "for"
    /\ it <= Len(pending_transactions)
    /\ LET t == pending_transactions[it]
           transaction == txs[t]
           appended == Append(pending_transactions, t)
           outcome == ReceiptOf(transaction.hash)
           balance == BalanceRead(UpdateBalanceAddress(transaction),
                                  transaction.token)
           tx_spent == transaction.amount + transaction.fee
       IN CASE outcome = "fail" ->
                /\ txs' = [txs EXCEPT ![t].status = "failed"]
                /\ pending_transactions' = UpdateTransactionList(appended, t)
                /\ UNCHANGED <<balances, debited>>
            [] outcome = "ok" /\ (~balance.row \/ transaction.fee = NoNum) ->
                \* AssertionError inside with self.db.begin(): rolled back
                /\ pending_transactions' = UpdateTransactionList(appended, t)
                /\ UNCHANGED <<txs, balances, debited>>
            [] outcome = "ok" /\ balance.row /\ transaction.fee # NoNum ->
                /\ debited[t] < MaxDebits
                /\ txs' = [txs EXCEPT ![t].status = "confirmed"]
                /\ pending_transactions' = UpdateTransactionList(appended, t)
                /\ balances' = BalanceWrite(UpdateBalanceAddress(transaction),
                                            transaction.token,
                                            balance.balance - tx_spent)
                /\ debited' = [debited EXCEPT ![t] = @ + 1]
            [] OTHER ->
                \* TransactionNotFound: logged, nothing else
                /\ Len(pending_transactions) < MaxList
                /\ pending_transactions' = appended
                /\ UNCHANGED <<txs, balances, debited>>
    /\ it' = it + 1
    /\ UNCHANGED <<addresses, processed, receipt, cur, resp, started, rpc,
                   credited>>

\* the iterator is exhausted: self._stop_event.wait(10) and back to the while
loop_end ==
    /\ UNCHANGED <<restarts, second>>
    /\ rpc = "for"
    /\ it > Len(pending_transactions)
    /\ rpc' = "while"
    /\ it' = 0
    /\ UNCHANGED <<addresses, balances, txs, processed, receipt, cur, resp,
                   started, pending_transactions, credited, debited>>

\* lifespan shutdown between two requests, then a new process is constructed:
\* the database and the chain stay, the ReceiptProcessor and its thread are new
restart ==
    /\ Idle
    /\ rpc # "new"
    /\ restarts < MaxRestarts
    /\ restarts' = restarts + 1
    /\ UNCHANGED second
    /\ started' = FALSE
    /\ pending_transactions' = <<>>
    /\ rpc' = "new"
    /\ it' = 0
    /\ UNCHANGED <<addresses, balances, txs, processed, receipt, cur, resp,
                   credited, debited>>

(***************************************************************************)
(* Specification                                                            *)
(***************************************************************************)
CreditKeys == {<<h, k>> : h \in InHashes, k \in 1..4}

Init ==
    /\ addresses = {}
    /\ balances = [k \in {} |-> 0]
    /\ txs = <<>>
    /\ processed = {}
    /\ receipt = [h \in OutHashes |-> "unsent"]
    /\ cur = NoReq
    /\ resp = NoResp
    /\ started = FALSE
    /\ pending_transactions = <<>>
    /\ rpc = "new"
    /\ it = 0
    /\ credited = [k \in CreditKeys |-> 0]
    /\ debited = <<>>
    /\ restarts = 0
    /\ second = "none"

\* The requests and chain events the model draws from
SpecHashes == {1, 5} \cup OutHashes
WithdrawFrom == {Addr(0, FALSE), Addr(0, TRUE)}
WithdrawTo == {Addr(1, FALSE), Addr(ExtId, FALSE)}
WithdrawAmounts == {0, 200000}

Next ==
    \/ \E q \in 1..MaxAddresses : generate_addresses(q)
    \/ \E h \in SpecHashes : process_transaction_begin(h)
    \/ process_transaction_loop
    \/ process_transaction_commit
    \/ \E f \in WithdrawFrom, t \in WithdrawTo, amt \in WithdrawAmounts,
          tok \in Tokens, gp \in GasPrices :
            withdraw_begin(f, t, amt, tok, gp)
    \/ withdraw_handoff
    \/ \E h \in OutHashes, o \in {"ok", "fail"} : Mine(h, o)
    \/ start
    \/ loop_while
    \/ loop_for
    \/ loop_end
    \/ restart

Spec == Init /\ [][Next]_vars

(***************************************************************************)
(* Notions of the specification the properties are stated with             *)
(***************************************************************************)
\* rows written by POST /withdraw
Outgoing == {i \in DOMAIN txs : txs[i].hash \in OutHashes}

\* the asset an outgoing row moved: the gas it was sent with tells the path
AssetOf(row) == IF row.gas_used = GAS_USDC THEN "USDC" ELSE "ETH"

\* pending outgoing rows of an address, in whatever spelling it was stored
PendingOutgoing(a, tok) ==
    {i \in Outgoing : /\ lower(txs[i].from_address) = lower(a)
                      /\ AssetOf(txs[i]) = tok
                      /\ txs[i].status = "pending"}

ConfirmedOutgoing(a, tok) ==
    {i \in Outgoing : /\ lower(txs[i].from_address) = lower(a)
                      /\ AssetOf(txs[i]) = tok
                      /\ txs[i].status = "confirmed"}

\* Balance(a) minus amount + fee of the pending outgoing rows of a
Available(a, tok) ==
    BalanceRead(lower(a), tok).balance
        - SumEncumbrance(PendingOutgoing(a, tok))

\* the sum of the credits the Deposit Processor applied to <<a, tok>>
RECURSIVE SumCredits(_, _, _)
SumCredits(K, a, tok) ==
    IF K = {} THEN 0
    ELSE LET key == CHOOSE x \in K : TRUE
             transfers == AllTransfers(key[1])
             mine == /\ key[2] <= Len(transfers)
                     /\ lower(transfers[key[2]].to_address) = a
                     /\ transfers[key[2]].kind = tok
         IN (IF mine THEN credited[key] * transfers[key[2]].amount ELSE 0)
                + SumCredits(K \ {key}, a, tok)

\* a step of POST /withdraw that broadcast a transfer and stored its row
WithdrawalAccepted ==
    /\ Len(txs') = Len(txs) + 1
    /\ txs'[Len(txs')].hash \in OutHashes

NewRow == txs'[Len(txs')]

\* a turn of the reconciler on an outgoing pending row with the given receipt
ReconcilerTurn(outcome) ==
    /\ loop_for
    /\ pending_transactions[it] \in Outgoing
    /\ txs[pending_transactions[it]].status = "pending"
    /\ ReceiptOf(txs[pending_transactions[it]].hash) = outcome

(***************************************************************************)
(* Properties                                                               *)
(***************************************************************************)
\* C1: a call of POST /process-transaction on a hash whose marker exists is
\* answered 409 and changes no Balance, no LedgerTransaction, no marker and
\* credits nothing: two calls in sequence credit exactly what the first did.
C1_Idempotence ==
    [][\A h \in SpecHashes :
          (h \in processed /\ process_transaction_begin(h))
              => /\ resp' = Resp("process", 409,
                                 "Transaction has already been processed.")
                 /\ cur' = NoReq
                 /\ UNCHANGED <<balances, txs, processed, credited>>]_vars

\* hash 1 was processed, its transfer credited once, and a second call on it
\* has just been answered 409
C1_Witness ==
    /\ resp = Resp("process", 409, "Transaction has already been processed.")
    /\ processed = {1}
    /\ credited[<<1, 1>>] = 1
    /\ BalanceRead(Addr(0, FALSE), "ETH").balance = 500000

C3_NoOverSpend ==
    [][(/\ WithdrawalAccepted
        /\ PendingOutgoing(NewRow.from_address, AssetOf(NewRow)) # {})
          => NewRow.amount
                <= Available(NewRow.from_address, AssetOf(NewRow))]_vars

\* C4: every Balance equals the credits applied to it minus amount + fee of
\* the confirmed outgoing transfers of its address.
C4_Conservation ==
    \A key \in DOMAIN balances :
        balances[key] = SumCredits(CreditKeys, key[1], key[2])
                          - SumEncumbrance(ConfirmedOutgoing(key[1], key[2]))

\* C5: no Balance is ever negative.
C5_NonNegative == \A key \in DOMAIN balances : balances[key] >= 0

C7_AvailabilityLowered ==
    [][\A a \in WithdrawFrom, tok \in Tokens :
          /\ (/\ WithdrawalAccepted
              /\ lower(NewRow.from_address) = a
              /\ AssetOf(NewRow) = tok)
                => get_balance(a, tok)'
                     = get_balance(a, tok) - (NewRow.amount + NewRow.fee)
          /\ (/\ ReconcilerTurn("ok")
              /\ lower(txs[pending_transactions[it]].from_address) = a
              /\ AssetOf(txs[pending_transactions[it]]) = tok)
                => get_balance(a, tok)' = get_balance(a, tok)]_vars

\* C8: with one transfer of amount a and fee f pending on an address of
\* balance B, a withdrawal of more than B - (a + f) is answered 400
\* "Insufficient funds." and stores nothing.
C8_ReservationRejects ==
    [][\A f \in WithdrawFrom, t \in WithdrawTo, amt \in WithdrawAmounts,
          tok \in Tokens, gp \in GasPrices :
          (/\ withdraw_begin(f, t, amt, tok, gp)
           /\ \E r \in addresses : r.address = f
           /\ Cardinality(PendingOutgoing(f, tok)) = 1
           /\ amt > 0
           /\ amt > Available(f, tok))
              => /\ resp' = Resp("withdraw", 400, "Insufficient funds.")
                 /\ UNCHANGED <<txs, processed, receipt>>]_vars

\* C9: a turn on a pending outgoing row whose receipt reports success sets
\* the row confirmed, takes it out of the working set, lowers the Balance of
\* its sender by amount + fee and changes no other Balance.
C9_Confirmation ==
    [][ReconcilerTurn("ok")
          => LET t == pending_transactions[it]
                 sender == <<lower(txs[t].from_address), AssetOf(txs[t])>>
             IN /\ txs'[t].status = "confirmed"
                /\ t \notin Range(pending_transactions')
                /\ DOMAIN balances' = DOMAIN balances \cup {sender}
                /\ balances'[sender]
                     = BalanceRead(sender[1], sender[2]).balance
                         - (txs[t].amount + txs[t].fee)
                /\ \A key \in DOMAIN balances \ {sender} :
                        balances'[key] = balances[key]]_vars

\* C10: a turn on a pending outgoing row whose receipt reports failure sets
\* the row failed, takes it out of the working set and changes no Balance.
C10_FailedReceipt ==
    [][ReconcilerTurn("fail")
          => LET t == pending_transactions[it]
             IN /\ txs'[t].status = "failed"
                /\ t \notin Range(pending_transactions')
                /\ UNCHANGED balances]_vars

\* how many times x occurs in the sequence s
RECURSIVE Count(_, _)
Count(s, x) ==
    IF s = <<>> THEN 0
    ELSE (IF Head(s) = x THEN 1 ELSE 0) + Count(Tail(s), x)

\* C11: a turn on a pending outgoing row that has no receipt yet leaves the
\* row pending, changes no Balance and leaves the row in the working set
\* exactly once.
C11_ReceiptAbsent ==
    [][ReconcilerTurn("none")
          => LET t == pending_transactions[it]
             IN /\ txs'[t].status = "pending"
                /\ UNCHANGED balances
                /\ Count(pending_transactions', t) = 1]_vars

(***************************************************************************)
(* The Deposit Processor on every kind of inbound transaction              *)
(***************************************************************************)
\* lines 71-73 of the detector: any other error of the node is raised again
\* and the call ends as an internal failure
process_transaction_rpc_error(h) ==
    /\ Idle
    /\ ~AlreadyProcessed(h)
    /\ resp' = Resp("process", 500, "Internal Server Error")
    /\ UNCHANGED <<addresses, balances, txs, processed, receipt, cur, started,
                   pending_transactions, rpc, it, credited, debited, restarts,
                   second>>

NextDeposit ==
    \/ \E q \in 1..MaxAddresses : generate_addresses(q)
    \/ \E h \in InHashes : process_transaction_begin(h)
    \/ \E h \in InHashes : process_transaction_rpc_error(h)
    \/ process_transaction_loop
    \/ process_transaction_commit
    \/ start
    \/ loop_while
    \/ loop_for
    \/ loop_end
    \/ restart

SpecDeposit == Init /\ [][NextDeposit]_vars

\* the transfers of h whose destination is a managed address
Qualifying(h) ==
    {k \in DOMAIN AllTransfers(h) :
        \E r \in addresses : r.address = lower(AllTransfers(h)[k].to_address)}

RowsIn(t, h) == {i \in DOMAIN t : t[i].hash = h}

RowsOf(h) == RowsIn(txs, h)

\* the call in progress returns in this step
ProcessReturns == cur.kind = "process" /\ cur' = NoReq

C13_ZeroQualifying ==
    [][/\ \A h \in InHashes :
            (/\ process_transaction_begin(h)
             /\ ~AlreadyProcessed(h)
             /\ ChainTx(h).found
             /\ Qualifying(h) = {})
                => /\ UNCHANGED <<balances, txs, credited>>
                   /\ AllTransfers(h) = <<>>
                        => /\ resp' = Resp("process", 200, "ok")
                           /\ processed' = processed \cup {h}
                           /\ cur' = NoReq
                   /\ AllTransfers(h) # <<>> => cur'.kind = "process"
       /\ (cur.kind = "process" /\ Qualifying(cur.hash) = {} /\ cur' # cur)
            => /\ UNCHANGED <<balances, txs, credited>>
               /\ RowsOf(cur.hash) = {}
               /\ ~process_transaction_commit
               /\ cur' = NoReq
                    => /\ resp' = Resp("process", 200, "ok")
                       /\ processed' = processed \cup {cur.hash}]_vars

\* hashes 3 (moves nothing) and 1 (moves ETH to an address that is not
\* managed) were processed: both markers exist, no row and no Balance
C13_Witness ==
    /\ processed = {1, 3}
    /\ addresses = {}
    /\ txs = <<>>
    /\ DOMAIN balances = {}
    /\ resp = Resp("process", 200, "ok")
    /\ cur = NoReq

\* C15: a call whose detection fails (the transaction is not located, or the
\* node fails) ends with 500, writes no marker and changes no Balance and no
\* row, so the hash can be processed later.
C15_DetectorFailure ==
    [][\A h \in InHashes :
          (\/ /\ process_transaction_begin(h)
              /\ ~AlreadyProcessed(h)
              /\ ~ChainTx(h).found
           \/ process_transaction_rpc_error(h))
              => /\ resp' = Resp("process", 500, "Internal Server Error")
                 /\ cur' = NoReq
                 /\ UNCHANGED <<processed, balances, txs, credited>>
                 /\ h \notin processed']_vars

\* a call has just failed with 500 while hash 4, which is not on chain, and
\* hash 1 have no marker; hash 3 was processed before
C15_Witness ==
    /\ resp = Resp("process", 500, "Internal Server Error")
    /\ processed = {3}
    /\ txs = <<>>

\* the transfers to a managed address carried by the outgoing transaction h,
\* as rows of the ledger
SentToManaged(t, h) ==
    {i \in RowsIn(t, h) :
        /\ t[i].to_address # NoAddr
        /\ \E r \in addresses : r.address = lower(t[i].to_address)}

\* C14: whenever the marker of a hash is written, every transfer of that
\* transaction to a managed address has already been added to the Balance of
\* its destination.  A withdrawal adds nothing to any Balance, so its marker
\* is justified only when it pays no managed address.
C14_MarkerImpliesCredited ==
    [][\A h \in processed' \ processed :
          /\ h \in InHashes
               => \A k \in Qualifying(h) : credited[<<h, k>>] = 1
          /\ h \in OutHashes => SentToManaged(txs', h) = {}]_vars

\* a withdrawal that is refused broadcasts nothing and stores nothing
WithdrawalRefused ==
    /\ cur' = NoReq
    /\ UNCHANGED <<txs, processed, receipt, pending_transactions, balances>>

\* C16: a withdrawal from an address that is not in the registry is answered
\* 404 whatever the amount; from a known address with an amount of zero or
\* less, 400 "Invalid amount." whatever the balance; otherwise, with an
\* available balance below the amount, 400 "Insufficient funds."; and each
\* refusal leaves rows, markers, broadcasts, working set and Balances alone.
C16_PreconditionsInOrder ==
    [][\A f \in WithdrawFrom, t \in WithdrawTo, amt \in WithdrawAmounts,
          tok \in Tokens, gp \in GasPrices :
          withdraw_begin(f, t, amt, tok, gp)
            => LET known == \E r \in addresses : r.address = f
               IN /\ ~known
                       => /\ resp' = Resp("withdraw", 404, "Address not found.")
                          /\ WithdrawalRefused
                  /\ (known /\ amt <= 0)
                       => /\ resp' = Resp("withdraw", 400, "Invalid amount.")
                          /\ WithdrawalRefused
                  /\ (known /\ amt > 0 /\ Available(f, tok) < amt)
                       => /\ resp' = Resp("withdraw", 400,
                                          "Insufficient funds.")
                          /\ WithdrawalRefused]_vars

\* C17: an accepted withdrawal stores exactly one row, pending, with the hash
\* of the broadcast, the sender, the recipient, the amount, the gas used, the
\* gas price and the fee; the row is then handed to the working set; and no
\* Balance changes in either step.
C17_SuccessfulWithdrawal ==
    [][/\ \A f \in WithdrawFrom, t \in WithdrawTo, amt \in WithdrawAmounts,
            tok \in Tokens, gp \in GasPrices :
            (withdraw_begin(f, t, amt, tok, gp) /\ WithdrawalAccepted)
              => /\ SubSeq(txs', 1, Len(txs)) = txs
                 /\ NewRow.status = "pending"
                 /\ NewRow.hash = OutHash(NumSent + 1)
                 /\ receipt[NewRow.hash] = "unsent"
                 /\ receipt'[NewRow.hash] = "none"
                 /\ lower(NewRow.from_address) = f
                 /\ NewRow.to_address = t
                 /\ NewRow.amount = amt
                 /\ NewRow.gas_used = (IF tok = "ETH" THEN GAS_ETH ELSE GAS_USDC)
                 /\ NewRow.gas_price = get_gas_price(gp)
                 /\ NewRow.fee = NewRow.gas_used * NewRow.gas_price
                 /\ cur'.kind = "withdraw"
                 /\ UNCHANGED <<balances, pending_transactions>>
       /\ withdraw_handoff
            => /\ pending_transactions' = Append(pending_transactions, Len(txs))
               /\ txs[Len(txs)].hash \in OutHashes
               /\ resp' = Resp("withdraw", 200, "ok")
               /\ UNCHANGED <<balances, txs>>]_vars

\* a withdrawal of 200000 wei from address 0 was accepted and answered: its
\* row is pending, the row is in the working set, and the Balance of the
\* sender is still the 500000 wei of its deposit
C17_Witness ==
    /\ resp = Resp("withdraw", 200, "ok")
    /\ cur = NoReq
    /\ Len(txs) = 2
    /\ txs[2].hash = OutHash(1)
    /\ txs[2].status = "pending"
    /\ txs[2].amount = 200000
    /\ txs[2].fee = GAS_ETH * 9
    /\ pending_transactions = <<2>>
    /\ balances[<<Addr(0, FALSE), "ETH">>] = 500000

(***************************************************************************)
(* start() called once more while the ReceiptProcessor is running          *)
(***************************************************************************)
\* lifespan entered once more on the module-level receipt_processor while it
\* is running: Thread(target=start_receipt_processor).start()
lifespan_again ==
    /\ second = "none"
    /\ started
    /\ second' = "new"
    /\ UNCHANGED <<addresses, balances, txs, processed, receipt, cur, resp,
                   started, pending_transactions, rpc, it, credited, debited,
                   restarts>>

\* start() on the second thread
start_again ==
    /\ second = "new"
    /\ IF StartReturnsEarly
       THEN /\ second' = "returned"
            /\ UNCHANGED <<started, pending_transactions>>
       ELSE /\ started' = TRUE
            /\ pending_transactions' =
                    pending_transactions \o PendingRows(Len(txs))
            /\ second' = "loop"
    /\ UNCHANGED <<addresses, balances, txs, processed, receipt, cur, resp,
                   rpc, it, credited, debited, restarts>>

NextStart ==
    \/ \E q \in 1..MaxAddresses : generate_addresses(q)
    \/ \E h \in SpecHashes : process_transaction_begin(h)
    \/ process_transaction_loop
    \/ process_transaction_commit
    \/ \E f \in WithdrawFrom, t \in WithdrawTo, amt \in WithdrawAmounts,
          tok \in Tokens, gp \in GasPrices :
            withdraw_begin(f, t, amt, tok, gp)
    \/ withdraw_handoff
    \/ \E h \in OutHashes, o \in {"ok", "fail"} : Mine(h, o)
    \/ start
    \/ loop_while
    \/ loop_for
    \/ loop_end
    \/ lifespan_again
    \/ start_again

SpecStart == Init /\ [][NextStart]_vars

\* C19: start() called while the ReceiptProcessor is running returns at once:
\* the working set is not synchronised again and gets no entry, the flag and
\* the running loop are left alone, and the caller does not become a second
\* loop.
C19_StartIdempotent ==
    [][(start_again /\ started)
          => /\ second' = "returned"
             /\ UNCHANGED <<pending_transactions, started, rpc, it, txs,
                            balances>>]_vars

\* the second call has returned while the first loop runs, with a pending
\* row in the table that a second synchronisation would have appended to the
\* working set, which still holds it once
C19_Witness ==
    /\ second = "returned"
    /\ started
    /\ rpc = "for"
    /\ PendingRows(Len(txs)) = <<1>>
    /\ pending_transactions = <<1>>

(***************************************************************************)
(* Shutdown: receipt_processor.stop() and thread.join() in lifespan        *)
(***************************************************************************)
\* lifespan after the yield, once the server serves no request any more:
\* stop() clears the flag and sets the event that ends the wait of the loop
stop ==
    /\ Idle
    /\ started' = FALSE
    /\ cur' = [kind |-> "shutdown"]
    /\ UNCHANGED <<addresses, balances, txs, processed, receipt, resp,
                   pending_transactions, rpc, it, credited, debited, restarts,
                   second>>

\* thread.join() returns when start_receipt_processor has returned
join ==
    /\ cur.kind = "shutdown"
    /\ rpc = "exit"
    /\ cur' = [kind |-> "down"]
    /\ UNCHANGED <<addresses, balances, txs, processed, receipt, resp, started,
                   pending_transactions, rpc, it, credited, debited, restarts,
                   second>>

NextStop ==
    \/ \E q \in 1..MaxAddresses : generate_addresses(q)
    \/ \E h \in SpecHashes : process_transaction_begin(h)
    \/ process_transaction_loop
    \/ process_transaction_commit
    \/ start
    \/ loop_while
    \/ loop_for
    \/ loop_end
    \/ stop
    \/ join

\* the thread of the ReceiptProcessor is scheduled again and again, and a
\* join whose thread has ended returns
SpecStop ==
    /\ Init
    /\ [][NextStop]_vars
    /\ WF_vars(start)
    /\ WF_vars(loop_while)
    /\ WF_vars(loop_for)
    /\ WF_vars(loop_end)
    /\ WF_vars(join)

\* C18: once stop() was called at shutdown, the thread of the
\* ReceiptProcessor ends and thread.join() returns, whatever the order of the
\* thread's start() and the caller's stop().
C18_StopReturns == (cur.kind = "shutdown") ~> (cur.kind = "down")

\* a turn of the for loop in which _process_transaction raises on a broadcast
\* transfer: the receipt reports success and an assertion of _update_balance
\* fails
RaisingTurn ==
    /\ loop_for
    /\ pending_transactions[it] \in Outgoing
    /\ LET transaction == txs[pending_transactions[it]]
       IN /\ transaction.status = "pending"
          /\ ReceiptOf(transaction.hash) = "ok"
          /\ \/ ~BalanceRead(UpdateBalanceAddress(transaction),
                             transaction.token).row
             \/ transaction.fee = NoNum

\* C20: when processing a transaction raises, the transaction stays pending
\* and in the working set, the loop goes on, and the transaction that
\* followed it in the working set is the next one attempted in this tick.
C20_ExceptionIsolation ==
    [][RaisingTurn
          => LET t == pending_transactions[it]
             IN /\ txs'[t].status = "pending"
                /\ Count(pending_transactions', t) >= 1
                /\ rpc' = "for"
                /\ it < Len(pending_transactions)
                     => /\ it' <= Len(pending_transactions')
                        /\ pending_transactions'[it']
                             = pending_transactions[it + 1]]_vars

\* the rows of the table whose status is 'pending'
PendingInTable == {i \in DOMAIN txs : txs[i].status = "pending"}

\* C21: start() on a ReceiptProcessor that is not running puts every row of
\* the table with status pending into the working set, keeps what the working
\* set held, and only then enters the polling loop; no receipt is fetched and
\* no row or Balance changes before that.
C21_RestartRecovery ==
    [][(start /\ ~started)
          => /\ \A i \in PendingInTable : Count(pending_transactions', i) >= 1
             /\ \A i \in DOMAIN txs :
                   Count(pending_transactions', i)
                     = Count(pending_transactions, i)
                         + (IF i \in PendingInTable THEN 1 ELSE 0)
             /\ started'
             /\ rpc' = "while"
             /\ it' = 0
             /\ UNCHANGED <<txs, balances>>]_vars

\* the process was restarted with a broadcast transfer still pending: the
\* new ReceiptProcessor has read it back into its working set and stands
\* before its first tick
C21_Witness ==
    /\ restarts = 1
    /\ started
    /\ rpc = "while"
    /\ it = 0
    /\ Len(txs) = 2
    /\ txs[2].hash = OutHash(1)
    /\ txs[2].status = "pending"
    /\ pending_transactions = <<1, 2>>

\* C22: a row stored by the Deposit Processor has status confirmed, a row
\* stored by a withdrawal has status pending, and the status of a stored row
\* is changed by a turn of the reconciler only.
C22_RowStatuses ==
    [][/\ process_transaction_commit => txs'[Len(txs')].status = "confirmed"
       /\ WithdrawalAccepted => NewRow.status = "pending"
       /\ (\E i \in DOMAIN txs : txs'[i].status # txs[i].status)
            => loop_for]_vars

(***************************************************************************)
(* A deposit to an address while a transfer debited on it is confirmed     *)
(***************************************************************************)
RaceHashes == {1, 5, 6}

NextRace ==
    \/ \E q \in 1..MaxAddresses : generate_addresses(q)
    \/ \E h \in RaceHashes : process_transaction_begin(h)
    \/ process_transaction_loop
    \/ process_transaction_commit
    \/ \E gp \in GasPrices :
          withdraw_begin(Addr(0, FALSE), Addr(1, FALSE), 200000, "ETH", gp)
    \/ withdraw_handoff
    \/ \E h \in OutHashes : Mine(h, "ok")
    \/ start
    \/ loop_while
    \/ loop_for
    \/ loop_end

SpecRace == Init /\ [][NextRace]_vars

\* C23: the credit of a deposit is added to the value the Balance has when
\* the credit is committed: a debit the reconciler applied to the same row
\* since the Deposit Processor read it is not overwritten.
C23_NoLostUpdate ==
    [][process_transaction_commit
          => LET transfer == cur.transfers[cur.i]
                 a == lower(transfer.to_address)
             IN balances'[<<a, transfer.kind>>]
                  = BalanceRead(a, transfer.kind).balance + transfer.amount]_vars

\* C24: a withdrawal that is accepted writes the marker of the hash of its
\* transfer in the step that stores its pending row, and the marker of such
\* a hash is written in no other step.
C24_WithdrawalMarker ==
    [][/\ WithdrawalAccepted
            => /\ NewRow.hash \notin processed
               /\ processed' = processed \cup {NewRow.hash}
               /\ NewRow.status = "pending"
       /\ \A h \in OutHashes :
             (h \in processed' /\ h \notin processed)
                => WithdrawalAccepted /\ NewRow.hash = h]_vars

\* the row of the first withdrawal and the marker of its hash are stored,
\* and the row has not been handed to the reconciler yet
C24_Witness ==
    /\ cur.kind = "withdraw"
    /\ OutHash(1) \in processed
    /\ txs[Len(txs)].hash = OutHash(1)
    /\ txs[Len(txs)].status = "pending"
    /\ Count(pending_transactions, Len(txs)) = 0

(***************************************************************************)
(* Withdrawals whose recipient may be the sender                           *)
(***************************************************************************)
SelfTo == {Addr(0, FALSE), Addr(1, FALSE)}

NextSelf ==
    \/ \E q \in 1..MaxAddresses : generate_addresses(q)
    \/ \E h \in SpecHashes : process_transaction_begin(h)
    \/ process_transaction_loop
    \/ process_transaction_commit
    \/ \E f \in WithdrawFrom, t \in SelfTo, amt \in WithdrawAmounts,
          gp \in GasPrices :
            withdraw_begin(f, t, amt, "ETH", gp)
    \/ withdraw_handoff
    \/ \E h \in OutHashes, o \in {"ok", "fail"} : Mine(h, o)
    \/ start
    \/ loop_while
    \/ loop_for
    \/ loop_end

SpecSelf == Init /\ [][NextSelf]_vars

\* C25: a withdrawal to the address it is sent from, which no other check
\* refuses, is answered 400 "From and to addresses cannot be the same" and
\* broadcasts and stores nothing.
C25_SameAddressRejected ==
    [][\A f \in WithdrawFrom, amt \in WithdrawAmounts, gp \in GasPrices :
          (/\ withdraw_begin(f, f, amt, "ETH", gp)
           /\ \E r \in addresses : r.address = f
           /\ amt > 0
           /\ ~InsufficientFunds(f, "ETH", amt))
              => /\ resp' = Resp("withdraw", 400,
                                 "From and to addresses cannot be the same")
                 /\ WithdrawalRefused]_vars

\* how a call of detect_transaction ends: with the result, or in the handler
\* of TransactionNotFound and BlockNotFound, which returns None
DetectOutcome(h) ==
    IF detect_transaction(h).found THEN "returns a result" ELSE "returns None"

\* C26: the detection of a hash that is not on chain, made for a call of the
\* Deposit Processor, ends by raising TransactionNotFound.
C26_DetectorNotFound ==
    [][\A h \in InHashes :
          (/\ process_transaction_begin(h)
           /\ ~AlreadyProcessed(h)
           /\ ~ChainTx(h).found)
              => DetectOutcome(h) = "raises TransactionNotFound"]_vars

\* the logs of h that are Transfer events of the configured USDC contract
UsdcTransferLogs(h) ==
    {i \in DOMAIN ChainTx(h).logs :
        LET log == ChainTx(h).logs[i]
        IN /\ log.address = UsdcId
           /\ log.ntopics >= MIN_TRANSFER_EVENT_TOPICS
           /\ log.sig}

\* those of them whose data field decodes as an amount
DecodableUsdcTransferLogs(h) ==
    {i \in UsdcTransferLogs(h) : ChainTx(h).logs[i].data # BadData}

\* the result for h holds a native transfer iff the value is positive, n
\* token transfers, and the transaction types that go with them
Classified(h, n) ==
    LET result == detect_transaction(h)
        eth == result.eth_transfer # <<>>
        usdc == result.usdc_transfer # <<>>
    IN /\ Len(result.eth_transfer) = (IF ChainTx(h).value > 0 THEN 1 ELSE 0)
       /\ Len(result.usdc_transfer) = n
       /\ \A k \in DOMAIN result.usdc_transfer :
             result.usdc_transfer[k].kind = "USDC"
       /\ result.transaction_type =
            (IF ~eth /\ ~usdc THEN <<"OTHER">>
             ELSE (IF eth THEN <<"ETH_TRANSFER">> ELSE <<>>)
                    \o (IF usdc THEN <<"USDC_TRANSFER">> ELSE <<>>))

\* a call of the Deposit Processor that runs the detector on a hash found on
\* chain
Detects(h) ==
    /\ process_transaction_begin(h)
    /\ ~AlreadyProcessed(h)
    /\ ChainTx(h).found

\* C27 as stated: the result of the detection of a found transaction holds
\* one token transfer for every Transfer-event log of the USDC contract.
C27_Classification ==
    [][\A h \in InHashes :
          Detects(h) => Classified(h, Cardinality(UsdcTransferLogs(h)))]_vars

\* C27 amended: the result of the detection of a found transaction holds one
\* native transfer iff the value is positive, one token transfer for every
\* Transfer-event log of the USDC contract whose data decodes as an amount
\* and none for any other log, and the transaction types that go with them.
C27_ClassificationDecodable ==
    [][\A h \in InHashes :
          Detects(h)
            => Classified(h, Cardinality(DecodableUsdcTransferLogs(h)))]_vars

\* the detection of hash 2 (eight logs, five of them Transfer events of the
\* USDC contract, one of these with data that does not decode) gave four
\* token transfers to the call in progress
C27_Witness ==
    /\ cur.kind = "process"
    /\ cur.hash = 2
    /\ Len(cur.transfers) = 4
    /\ Cardinality(UsdcTransferLogs(2)) = 5
    /\ \A k \in DOMAIN cur.transfers : cur.transfers[k].kind = "USDC"

\* the transfers of h the Deposit Processor has credited, which are the
\* entries of the deposit list it returns
Deposits(h) == {k \in DOMAIN AllTransfers(h) : credited[<<h, k>>] >= 1}

\* C28: the step of the Deposit Processor on a transfer whose destination is
\* not a managed address stores no row and changes no Balance, and when the
\* call returns the transfers it has credited and lists are exactly those
\* whose lower-cased destination is managed.
C28_OnlyManagedCredited ==
    [][/\ (/\ process_transaction_loop
           /\ cur.i <= Len(cur.transfers)
           /\ cur.i \notin Qualifying(cur.hash))
            => /\ UNCHANGED <<txs, balances, credited>>
               /\ cur' = [cur EXCEPT !.i = @ + 1]
       /\ process_transaction_commit => cur.i \in Qualifying(cur.hash)
       /\ ProcessReturns
            => {k \in DOMAIN cur.transfers : credited'[<<cur.hash, k>>] >= 1}
                 = Qualifying(cur.hash)]_vars

\* hash 2 was processed while address 0 was the only managed address: its
\* two transfers to address 0 are credited, the transfers to address 1 and
\* to the outside address are not, and no Balance exists for address 1
C28_Witness ==
    /\ 2 \in processed
    /\ Cardinality(addresses) = 1
    /\ Deposits(2) = {1, 4}
    /\ Cardinality(RowsOf(2)) = 2
    /\ ~HasBalance(Addr(1, FALSE), "USDC")
    /\ BalanceRead(Addr(0, FALSE), "USDC").balance = 5

\* the body of the response of generate_addresses, computed from the table
\* after the commit
GenerateAddressesResponse(quantity, table) ==
    [generated |-> quantity, total |-> Cardinality(table)]

\* the indices of a registry run from 0 without a gap, and no index and no
\* address is held by two rows
Contiguous(table) ==
    /\ {r.index : r \in table} = 0..(Cardinality(table) - 1)
    /\ Cardinality({r.address : r \in table}) = Cardinality(table)

ToVisit(list, position) == SubSeq(list, position, Len(list))

\* C30: after a turn of the reconciler on a working set of broadcast
\* transfers, the transactions still to be visited in this tick are those
\* that followed the one just processed, whatever the outcome of the turn:
\* none of them is skipped and none is visited again.
C30_TickCoverage ==
    [][(loop_for /\ Range(pending_transactions) \subseteq Outgoing)
          => ToVisit(pending_transactions', it')
               = ToVisit(pending_transactions, it + 1)]_vars

(***************************************************************************)
(* The ticks of the reconciler under a fair scheduler                      *)
(***************************************************************************)
NextTick ==
    \/ \E q \in 1..MaxAddresses : generate_addresses(q)
    \/ process_transaction_begin(1)
    \/ process_transaction_loop
    \/ process_transaction_commit
    \/ \E gp \in GasPrices :
          withdraw_begin(Addr(0, FALSE), Addr(1, FALSE), 200000, "ETH", gp)
    \/ withdraw_handoff
    \/ \E h \in OutHashes, o \in {"ok", "fail"} : Mine(h, o)
    \/ start
    \/ loop_while
    \/ loop_for
    \/ loop_end

\* the thread of the ReceiptProcessor is scheduled again and again; nothing
\* makes a request arrive or a transfer be mined
SpecTick ==
    /\ Init
    /\ [][NextTick]_vars
    /\ WF_vars(start)
    /\ WF_vars(loop_while)
    /\ WF_vars(loop_for)
    /\ WF_vars(loop_end)

\* a turn of the for loop that finds no receipt puts the transaction back
\* behind what is left to visit: the loop has as much to visit as before
TickRequeues ==
    [][(/\ loop_for
        /\ ReceiptOf(txs[pending_transactions[it]].hash) = "none") =>
            ToVisit(pending_transactions', it')
              = Append(ToVisit(pending_transactions, it + 1),
                       pending_transactions[it])]_vars

Malformed(log) ==
    \/ log.ntopics < MIN_TRANSFER_EVENT_TOPICS
    \/ ~log.sig
    \/ log.data = BadData

\* the transfers of the well-formed logs of the USDC contract, in log order
RECURSIVE WellFormedTransfers(_)
WellFormedTransfers(logs) ==
    IF logs = <<>> THEN <<>>
    ELSE (IF ~Malformed(Head(logs)) /\ Head(logs).address = UsdcId
          THEN << Transfer("USDC", Head(logs).data, Head(logs).from_address,
                           Head(logs).to_address) >>
          ELSE <<>>) \o WellFormedTransfers(Tail(logs))

HasMalformedLog(h) == \E i \in DOMAIN ChainTx(h).logs : Malformed(ChainTx(h).logs[i])

\* C32: the detection of a transaction with malformed logs succeeds, and the
\* transfers the Deposit Processor goes through are the native transfer and
\* exactly the transfers of the well-formed logs of the USDC contract.
C32_MalformedLogIsolation ==
    [][\A h \in InHashes :
          (Detects(h) /\ HasMalformedLog(h)) =>
             /\ \/ cur'.kind = "process"
                \/ resp'.code = 200 /\ h \in processed'
             /\ detect_transaction(h).usdc_transfer
                  = WellFormedTransfers(ChainTx(h).logs)
             /\ WellFormedTransfers(ChainTx(h).logs) # <<>> =>
                  /\ cur'.kind = "process"
                  /\ cur'.transfers = detect_transaction(h).eth_transfer
                                        \o WellFormedTransfers(ChainTx(h).logs)]_vars

\* hash 2, with its three malformed logs, has been detected: four transfers
C32_Witness ==
    /\ cur.kind = "process"
    /\ cur.hash = 2
    /\ HasMalformedLog(2)
    /\ Len(cur.transfers) = 4
    /\ cur.transfers[2].amount = 1

(***************************************************************************)
(* Withdrawals of both assets: address 0 holds ETH from hash 1 and USDC     *)
(* from hash 2                                                              *)
(***************************************************************************)
TokenHashes == {1, 2}
TokenGasPrices == {8}           \* w3.eth.gas_price; 1.2 times 8 is no integer
TokenAmount == 2

NextToken ==
    \/ generate_addresses(MaxAddresses)
    \/ \E h \in TokenHashes : process_transaction_begin(h)
    \/ process_transaction_loop
    \/ process_transaction_commit
    \/ \E token \in Tokens, gp \in TokenGasPrices :
          withdraw_begin(Addr(0, FALSE), Addr(1, FALSE), TokenAmount, token, gp)
    \/ withdraw_handoff
    \/ \E h \in OutHashes : Mine(h, "ok")
    \/ start
    \/ loop_while
    \/ loop_for
    \/ loop_end

SpecToken == Init /\ [][NextToken]_vars

\* C33: the row of an accepted withdrawal records the suggested gas price
\* times 1.2 rounded down, 21000 units of gas for ETH and 65000 for USDC, and
\* their product as the fee.
C33_FeeModel ==
    [][\A token \in Tokens, gp \in TokenGasPrices :
          (/\ withdraw_begin(Addr(0, FALSE), Addr(1, FALSE), TokenAmount,
                             token, gp)
           /\ Len(txs') = Len(txs) + 1) =>
             /\ 10 * NewRow.gas_price <= 12 * gp
             /\ 12 * gp < 10 * (NewRow.gas_price + 1)
             /\ NewRow.gas_used = (IF token = "ETH" THEN 21000 ELSE 65000)
             /\ NewRow.fee = NewRow.gas_used * NewRow.gas_price]_vars

\* a token withdrawal and a native one at the suggested price 8 are both on
\* record
C33_Witness ==
    \E i, j \in DOMAIN txs :
        /\ txs[i].hash \in OutHashes /\ txs[j].hash \in OutHashes
        /\ txs[i].gas_used = GAS_USDC /\ txs[i].gas_price = 9
        /\ txs[i].fee = 585000
        /\ txs[j].gas_used = GAS_ETH /\ txs[j].gas_price = 9
        /\ txs[j].fee = 189000

\* C34: the reconciler debits a Balance at most once for a broadcast
\* transfer, and takes no turn on a transfer that is confirmed or failed.
C34_DebitAtMostOnce ==
    [][/\ \A i \in Outgoing : debited'[i] <= 1
       /\ (loop_for /\ pending_transactions[it] \in Outgoing) =>
              txs[pending_transactions[it]].status = "pending"]_vars

\* C35: between two ticks every broadcast transfer is in the working set at
\* most once, and every one that is in it is pending.
C35_WorkingSet ==
    rpc = "while" =>
        \A i \in Range(pending_transactions) \cap Outgoing :
            /\ Count(pending_transactions, i) <= 1
            /\ txs[i].status = "pending"

\* C36: no row written by the Deposit Processor is in the working set of the
\* reconciler, and none is among the pending rows get_balance adds up for a
\* managed address.
C36_DepositsNotReconciled ==
    /\ Range(pending_transactions) \subseteq Outgoing
    /\ \A a \in StoredAddresses, tok \in Tokens :
          PendingFrom(a, tok) \subseteq Outgoing

(***************************************************************************)
(* Calls of the Deposit Processor that abort between two commits            *)
(***************************************************************************)
MaxCredits == 2     \* no call aborts once a transfer was credited so often

AbortHashes == {1, 2}

\* an exception of the database (or the end of the process) after the commit
\* of one transfer and before the next statement: the call ends as an internal
\* failure, what was committed stays, the marker is not written
process_transaction_abort ==
    /\ cur.kind = "process" /\ cur.phase = "loop"
    /\ cur.i > 1
    /\ \A key \in CreditKeys : credited[key] < MaxCredits
    /\ resp' = Resp("process", 500, "Internal Server Error")
    /\ cur' = NoReq
    /\ UNCHANGED <<addresses, balances, txs, processed, receipt, started,
                   pending_transactions, rpc, it, credited, debited, restarts,
                   second>>

NextAbort ==
    \/ \E q \in 1..MaxAddresses : generate_addresses(q)
    \/ \E h \in AbortHashes : process_transaction_begin(h)
    \/ process_transaction_loop
    \/ process_transaction_commit
    \/ process_transaction_abort
    \/ start
    \/ loop_while
    \/ loop_for
    \/ loop_end

SpecAbort == Init /\ [][NextAbort]_vars

\* C37: over all calls for a hash, those that aborted between the commit of a
\* credit and the write of the marker included, every transfer of the
\* transaction is credited at most once.
C37_AtMostOnceAcrossAborts ==
    \A h \in AbortHashes :
        \A k \in DOMAIN AllTransfers(h) : credited[<<h, k>>] <= 1

\* C38: the row of an accepted withdrawal carries the symbol of the asset that
\* was requested, and is pending.
C38_AssetTagging ==
    [][\A token \in Tokens, gp \in TokenGasPrices :
          (/\ withdraw_begin(Addr(0, FALSE), Addr(1, FALSE), TokenAmount,
                             token, gp)
           /\ Len(txs') = Len(txs) + 1) =>
             /\ NewRow.token = token
             /\ NewRow.status = "pending"]_vars

\* C39: a call of the Deposit Processor for the hash of a transfer that a
\* withdrawal has broadcast is refused as a conflict; it credits nothing and
\* writes no row, whoever the recipient is.
C39_InternalNotCredited ==
    [][\A h \in OutHashes :
          (process_transaction_begin(h) /\ receipt[h] # "unsent") =>
             /\ resp' = Resp("process", 409,
                             "Transaction has already been processed.")
             /\ cur' = NoReq
             /\ UNCHANGED <<balances, txs, processed, credited>>]_vars

\* the one withdrawal, funded by hash 1, went to managed address 1 and is
\* mined; the detector would report its transfer; the last call of the Deposit
\* Processor was refused as a conflict and address 1 holds nothing
C39_Witness ==
    /\ resp.op = "process" /\ resp.code = 409
    /\ processed = {1, OutHash(1)}
    /\ ~HasBalance(Addr(1, FALSE), "ETH")
    /\ receipt[OutHash(1)] = "ok"
    /\ \E i \in Outgoing : /\ txs[i].hash = OutHash(1)
                           /\ txs[i].to_address \in StoredAddresses
    /\ Len(detect_transaction(OutHash(1)).eth_transfer) = 1

(***************************************************************************)
(* The hand-off of a new transfer to a reconciler that is inside a tick     *)
(***************************************************************************)
MaxTurns == 8       \* turns of the for loop that are followed

\* the list after the turn of the for loop on position pos, with the receipts
\* as they are now
TurnList(list, pos) ==
    LET t == list[pos]
        appended == Append(list, t)
    IN IF ReceiptOf(txs[t].hash) \in {"ok", "fail"}
       THEN UpdateTransactionList(appended, t)
       ELSE appended

\* the rows whose receipt the for loop fetches from position pos on
RECURSIVE FetchedFrom(_, _, _)
FetchedFrom(list, pos, turns) ==
    IF pos > Len(list) \/ turns = 0 THEN {}
    ELSE {list[pos]} \cup FetchedFrom(TurnList(list, pos), pos + 1, turns - 1)

\* the list the for loop leaves when it goes on from position pos
RECURSIVE ListAfter(_, _, _)
ListAfter(list, pos, turns) ==
    IF pos > Len(list) \/ turns = 0 THEN list
    ELSE ListAfter(TurnList(list, pos), pos + 1, turns - 1)

\* C40: a transfer handed to the working set while the for loop is running
\* is appended behind what the loop has still to visit, and its receipt is
\* fetched in the rest of this tick or in the next one.
C40_ConcurrentHandoff ==
    [][(withdraw_handoff /\ rpc = "for") =>
            /\ pending_transactions' = Append(pending_transactions, cur.tx)
            /\ it' = it
            /\ cur.tx \in FetchedFrom(pending_transactions', it, MaxTurns)
                 \cup FetchedFrom(ListAfter(pending_transactions', it, MaxTurns),
                                  1, MaxTurns)]_vars

====
